---------------------------- MODULE Spec2Model ----------------------------
(***************************************************************************)
(* Left-leaning red-black tree (LeftLeaningRedBlack.cpp).                  *)
(*                                                                         *)
(* A pointer is a positive integer and nullptr is 0.  heap maps the        *)
(* address of every node reachable from m_pRoot to its LLTB_t record.      *)
(* NewNode hands out addresses in increasing order (allocated counts them) *)
(* and released lists the addresses given back through a delete            *)
(* expression.  A node that is unlinked without being released can be      *)
(* neither read nor written by any later call; its record is dropped from  *)
(* heap while its address stays allocated: it is the set Leaked.           *)
(***************************************************************************)
EXTENDS Integers, Sequences, FiniteSets, TLC

\* Largest key the unrestricted driver inserts (keys run from 0).
MaxKey == 3
\* Number of nodes the unrestricted driver may allocate.
MaxNodes == 4
\* Length of the strictly ascending insertion run 1, 2, ..., AscLen.
AscLen == 7

nullptr == 0

Max(left, right) == IF left > right THEN left ELSE right

Min(left, right) == IF left < right THEN left ELSE right

\* One sequence of keys the driver may draw and insert in this order, after
\* which it deletes the first of them.
Example == <<50, 25, 75, 10, 30, 60, 80, 5, 15, 27, 35>>

InsertKeys == 0..MaxKey
Keys == (0..Max(MaxKey, AscLen)) \cup {Example[i] : i \in DOMAIN Example}

VARIABLES
    heap,       \* address -> [Key, IsRed, pLeft, pRight], for the nodes of the tree
    m_pRoot,    \* the root link
    allocated,  \* number of nodes NewNode has allocated so far
    released,   \* node addresses handed to the allocator by a delete expression
    present,    \* keys inserted and not deleted afterwards (reference set)
    asc,        \* TRUE while the nodes so far were allocated by Insert(1), Insert(2), ...
    example,    \* TRUE while no node was allocated for a key other than Example's
    op,         \* the last public call: [name, key]
    lookUpRet,  \* the pointer the last LookUp returned
    insertRet,  \* the bool the last Insert returned
    fresh,      \* TRUE iff the last call was an Insert of a key that was not present
    undone,     \* TRUE iff the last call was Delete(k) right after such an Insert(k)
    parent,     \* the parent Insert printed (nullptr for "No Parent")
    out,        \* keys printed by the last Traverse, in order
    diag,       \* TRUE iff the last Traverse printed its out-of-order diagnostic
    frames,     \* the frames of the last Delete, in program order (see Event)
    nullDeref   \* TRUE once a call has read through a null link

vars == <<heap, m_pRoot, allocated, released, present, asc, example, op, lookUpRet,
          insertRet, fresh, undone, parent, out, diag, frames, nullDeref>>

-----------------------------------------------------------------------------
\* Node primitives.  A subtree in the hands of a recursion frame is a cursor
\* [h, n]: the heap as the frame has left it and the frame's pNode.

Cur(h, n) == [h |-> h, n |-> n]

NewNode == [Key |-> 0, IsRed |-> TRUE, pLeft |-> nullptr, pRight |-> nullptr]

IsRed(h, pNode) == (pNode # nullptr) /\ h[pNode].IsRed

RotateLeft(h, pNode) ==
    LET pTemp == h[pNode].pRight
    IN  Cur([h EXCEPT ![pNode].pRight = h[pTemp].pLeft,
                      ![pTemp].pLeft = pNode,
                      ![pTemp].IsRed = h[pNode].IsRed,
                      ![pNode].IsRed = TRUE],
            pTemp)

RotateRight(h, pNode) ==
    LET pTemp == h[pNode].pLeft
    IN  Cur([h EXCEPT ![pNode].pLeft = h[pTemp].pRight,
                      ![pTemp].pRight = pNode,
                      ![pTemp].IsRed = h[pNode].IsRed,
                      ![pNode].IsRed = TRUE],
            pTemp)

\* One "if (nullptr != p) p->IsRed = !p->IsRed" of ColorFlip.
FlipChild(h, p) == IF p # nullptr THEN [h EXCEPT ![p].IsRed = ~h[p].IsRed] ELSE h

ColorFlip(h, pNode) ==
    FlipChild(FlipChild([h EXCEPT ![pNode].IsRed = ~h[pNode].IsRed],
                        h[pNode].pLeft),
              h[pNode].pRight)

-----------------------------------------------------------------------------
\* Free: post-order walk; the node pointer is nulled before the delete
\* expression, so the delete expression is applied to nullptr and releases
\* no node.  The value is the sequence of addresses released.

DeleteExpr(p) == IF p = nullptr THEN <<>> ELSE <<p>>

RECURSIVE Free(_, _)
Free(h, pNode) ==
    IF pNode # nullptr
    THEN (IF h[pNode].pLeft # nullptr THEN Free(h, h[pNode].pLeft) ELSE <<>>)
         \o (IF h[pNode].pRight # nullptr THEN Free(h, h[pNode].pRight) ELSE <<>>)
         \o DeleteExpr(nullptr)
    ELSE <<>>

-----------------------------------------------------------------------------
\* Insertion

\* InsertFixRight with the left rotation left out.
InsertFixRightSkip(h, pNode) == Cur(h, pNode)

\* "Fix a right-leaning red node".
InsertFixRight(h, pNode) ==
    IF IsRed(h, h[pNode].pRight) /\ ~IsRed(h, h[pNode].pLeft)
    THEN RotateLeft(h, pNode) ELSE Cur(h, pNode)

\* InsertFixLeft with the right rotation left out.
InsertFixLeftSkip(x) == x

\* "Fix two reds in a row".
InsertFixLeft(x) ==
    IF IsRed(x.h, x.h[x.n].pLeft) /\ IsRed(x.h, x.h[x.h[x.n].pLeft].pLeft)
    THEN RotateRight(x.h, x.n) ELSE x

\* The color flip of the 2-3 configuration (USE_234_TREE is not defined).
InsertSplit(x) ==
    IF IsRed(x.h, x.h[x.n].pLeft) /\ IsRed(x.h, x.h[x.n].pRight)
    THEN Cur(ColorFlip(x.h, x.n), x.n) ELSE x

\* The three rebalancing steps InsertRec applies on the way out of the recursion.
InsertFix(h, pNode) == InsertSplit(InsertFixLeft(InsertFixRight(h, pNode)))

\* "pNode->pLeft = <r>" and "pNode->pRight = <r>" for a recursion's result r.
SetLeft(r, pNode) == [r.h EXCEPT ![pNode].pLeft = r.n]

SetRight(r, pNode) == [r.h EXCEPT ![pNode].pRight = r.n]

RECURSIVE InsertRec(_, _, _)
\* InsertRec without the test for a key that is already in the tree.
InsertRecNoUpsert(h, pNode, key) ==
    IF pNode = nullptr
    THEN Cur(h @@ ((allocated + 1) :> [NewNode EXCEPT !.Key = key]), allocated + 1)
    ELSE IF key < h[pNode].Key
    THEN InsertFix(SetLeft(InsertRec(h, h[pNode].pLeft, key), pNode), pNode)
    ELSE InsertFix(SetRight(InsertRec(h, h[pNode].pRight, key), pNode), pNode)

InsertRec(h, pNode, key) ==
    IF pNode = nullptr
    THEN Cur(h @@ ((allocated + 1) :> [NewNode EXCEPT !.Key = key]), allocated + 1)
    ELSE IF key = h[pNode].Key
    THEN InsertFix([h EXCEPT ![pNode].Key = key], pNode)
    ELSE IF key < h[pNode].Key
    THEN InsertFix(SetLeft(InsertRec(h, h[pNode].pLeft, key), pNode), pNode)
    ELSE InsertFix(SetRight(InsertRec(h, h[pNode].pRight, key), pNode), pNode)

\* InsertRec when operator new has no memory left.  NewNode's new-expression
\* throws std::bad_alloc; no frame of InsertRec catches it, so the exception
\* leaves every frame at its recursive call, before the frame's assignment to
\* pLeft or pRight and before its rebalancing steps.  A frame's outcome is
\* [h, n, thrown].
Thrown(h) == [h |-> h, n |-> nullptr, thrown |-> TRUE]

Returned(x) == [h |-> x.h, n |-> x.n, thrown |-> FALSE]

\* InsertRecLeft storing a null result into the link when the call failed.
InsertRecLeftCut(r, pNode) ==
    IF r.thrown THEN Thrown(SetLeft(r, pNode))
    ELSE Returned(InsertFix(SetLeft(r, pNode), pNode))

\* "pNode->pLeft = InsertRec(pNode->pLeft, ref)" and the rest of the frame.
InsertRecLeft(r, pNode) ==
    IF r.thrown THEN r
    ELSE Returned(InsertFix(SetLeft(r, pNode), pNode))

\* "pNode->pRight = InsertRec(pNode->pRight, ref)" and the rest of the frame.
InsertRecRight(r, pNode) ==
    IF r.thrown THEN r
    ELSE Returned(InsertFix(SetRight(r, pNode), pNode))

RECURSIVE InsertRecNoMem(_, _, _)
InsertRecNoMem(h, pNode, key) ==
    IF pNode = nullptr
    THEN Thrown(h)
    ELSE IF key = h[pNode].Key
    THEN Returned(InsertFix([h EXCEPT ![pNode].Key = key], pNode))
    ELSE IF key < h[pNode].Key
    THEN InsertRecLeft(InsertRecNoMem(h, h[pNode].pLeft, key), pNode)
    ELSE InsertRecRight(InsertRecNoMem(h, h[pNode].pRight, key), pNode)

\* FindParent: the node returned, or -1 when a null link is read through.
RECURSIVE FindParent(_, _, _)
\* FindParent testing the right child before the left one.
FindParentRightFirst(h, tempPtr, key) ==
    IF tempPtr = nullptr THEN -1
    ELSE IF h[tempPtr].pRight = nullptr THEN -1
    ELSE IF h[h[tempPtr].pRight].Key = key THEN tempPtr
    ELSE IF h[tempPtr].pLeft = nullptr THEN -1
    ELSE IF h[h[tempPtr].pLeft].Key = key THEN tempPtr
    ELSE IF h[tempPtr].Key > key THEN FindParent(h, h[tempPtr].pLeft, key)
    ELSE FindParent(h, h[tempPtr].pRight, key)

FindParent(h, tempPtr, key) ==
    IF tempPtr = nullptr THEN -1
    ELSE IF h[tempPtr].pLeft = nullptr THEN -1
    ELSE IF h[h[tempPtr].pLeft].Key = key THEN tempPtr
    ELSE IF h[tempPtr].pRight = nullptr THEN -1
    ELSE IF h[h[tempPtr].pRight].Key = key THEN tempPtr
    ELSE IF h[tempPtr].Key > key THEN FindParent(h, h[tempPtr].pLeft, key)
    ELSE FindParent(h, h[tempPtr].pRight, key)

\* Insert's reads of parent->pLeft->Ref.Key and parent->pRight->Ref.Key.
ReportChild(h, p, key) ==
    IF p = -1 THEN [parent |-> nullptr, fault |-> TRUE]
    ELSE IF h[p].pLeft = nullptr THEN [parent |-> p, fault |-> TRUE]
    ELSE IF h[h[p].pLeft].Key = key THEN [parent |-> p, fault |-> FALSE]
    ELSE IF h[p].pRight = nullptr THEN [parent |-> p, fault |-> TRUE]
    ELSE [parent |-> p, fault |-> FALSE]

\* The printing half of Insert: the parent it prints, and whether it read
\* through a null link on the way.
InsertReport(h, root, key) ==
    IF h[root].Key = key
    THEN [parent |-> nullptr, fault |-> FALSE]
    ELSE ReportChild(h, FindParent(h, root, key), key)

-----------------------------------------------------------------------------
\* Deletion

FlipCur(x) == Cur(ColorFlip(x.h, x.n), x.n)

\* MoveRedLeft after its first ColorFlip.
MoveRedLeftRotate(h, pNode) ==
    IF (h[pNode].pRight # nullptr) /\ IsRed(h, h[h[pNode].pRight].pLeft)
    THEN FlipCur(RotateLeft(SetRight(RotateRight(h, h[pNode].pRight), pNode), pNode))
    ELSE Cur(h, pNode)

\* MoveRedLeft without its first ColorFlip.
MoveRedLeftNoFlip(h, pNode) == MoveRedLeftRotate(h, pNode)

MoveRedLeft(h, pNode) == MoveRedLeftRotate(ColorFlip(h, pNode), pNode)

\* MoveRedRight after its first ColorFlip.
MoveRedRightRotate(h, pNode) ==
    IF (h[pNode].pLeft # nullptr) /\ IsRed(h, h[h[pNode].pLeft].pLeft)
    THEN FlipCur(RotateRight(h, pNode))
    ELSE Cur(h, pNode)

\* MoveRedRight without its first ColorFlip.
MoveRedRightNoFlip(h, pNode) == MoveRedRightRotate(h, pNode)

MoveRedRight(h, pNode) == MoveRedRightRotate(ColorFlip(h, pNode), pNode)

RECURSIVE FindMin(_, _)
\* FindMin without its loop.
FindMinNoLoop(h, pNode) == pNode

FindMin(h, pNode) ==
    IF h[pNode].pLeft # nullptr THEN FindMin(h, h[pNode].pLeft) ELSE pNode

\* FixUpRight with the left rotation left out.
FixUpRightSkip(h, pNode) == Cur(h, pNode)

\* "Fix right-leaning red nodes".
FixUpRight(h, pNode) ==
    IF IsRed(h, h[pNode].pRight) THEN RotateLeft(h, pNode) ELSE Cur(h, pNode)

\* FixUpLeft with the right rotation left out.
FixUpLeftSkip(x) == x

\* "Detect if there is a 4-node that traverses down the left".
FixUpLeft(x) ==
    IF IsRed(x.h, x.h[x.n].pLeft) /\ IsRed(x.h, x.h[x.h[x.n].pLeft].pLeft)
    THEN RotateRight(x.h, x.n) ELSE x

\* "Split 4-nodes".
FixUpSplit(x) ==
    IF IsRed(x.h, x.h[x.n].pLeft) /\ IsRed(x.h, x.h[x.n].pRight)
    THEN Cur(ColorFlip(x.h, x.n), x.n) ELSE x

FixUp(h, pNode) == FixUpSplit(FixUpLeft(FixUpRight(h, pNode)))

\* What a frame of DeleteRec / DeleteMin looks like at one of its program points:
\* e is the point ("descend": about to recurse into child c; "successor": about
\* to overwrite the node with the key of c = FindMin(pRight); "unlink": about to
\* Free the node and return nullptr; "fixup": about to return FixUp(n)).
\* d is the node the frame's recursive call is made on (nullptr if it makes
\* none), dred its colour and gred the colour of its left child.  same tells,
\* at "fixup", whether InsertRec's three steps would return what FixUp returns.
Descends(e, h, n, c) == IF e = "successor" THEN h[n].pRight ELSE c

Event(e, f, h, n, c) ==
    [e |-> e, f |-> f, n |-> n, c |-> c,
     red |-> IsRed(h, n), cred |-> IsRed(h, c),
     l |-> h[n].pLeft, r |-> h[n].pRight,
     lred |-> IsRed(h, h[n].pLeft), rred |-> IsRed(h, h[n].pRight),
     d |-> Descends(e, h, n, c),
     dred |-> IsRed(h, Descends(e, h, n, c)),
     gred |-> (Descends(e, h, n, c) # nullptr)
              /\ IsRed(h, h[Descends(e, h, n, c)].pLeft),
     same |-> (e = "fixup") => (FixUp(h, n) = InsertFix(h, n))]

\* The result of a frame: the subtree it returns, the addresses released below
\* it and the events of the frames below it.
Result(x, rel, log) == [h |-> x.h, n |-> x.n, rel |-> rel, log |-> log]

Logged(ev, r) == [r EXCEPT !.log = <<ev>> \o @]

\* "Free(pNode); return nullptr;"
Unlink(f, h, pNode) ==
    [h |-> h, n |-> nullptr, rel |-> Free(h, pNode),
     log |-> <<Event("unlink", f, h, pNode, nullptr)>>]

\* "return FixUp(pNode);"
Return(f, h, pNode, rel, log) ==
    Result(FixUp(h, pNode), rel, log \o <<Event("fixup", f, h, pNode, nullptr)>>)

\* The tail of a frame that recursed: reattach the child the recursion
\* returned, then return FixUp(pNode).
Rewire(f, pNode, side, r) ==
    Return(f, IF side = "L" THEN SetLeft(r, pNode) ELSE SetRight(r, pNode),
           pNode, r.rel, r.log)

RECURSIVE DeleteMin(_, _)

\* DeleteMin from "pNode->pLeft = DeleteMin(pNode->pLeft)" on.
DeleteMinDown(a) ==
    Rewire("DeleteMin", a.n, "L",
           Logged(Event("descend", "DeleteMin", a.h, a.n, a.h[a.n].pLeft),
                  DeleteMin(a.h, a.h[a.n].pLeft)))

\* DeleteMin without MoveRedLeft.
DeleteMinNoMove(h, pNode) ==
    IF h[pNode].pLeft = nullptr
    THEN Unlink("DeleteMin", h, pNode)
    ELSE DeleteMinDown(Cur(h, pNode))

DeleteMin(h, pNode) ==
    IF h[pNode].pLeft = nullptr
    THEN Unlink("DeleteMin", h, pNode)
    ELSE DeleteMinDown(
             IF ~IsRed(h, h[pNode].pLeft) /\ ~IsRed(h, h[h[pNode].pLeft].pLeft)
             THEN MoveRedLeft(h, pNode) ELSE Cur(h, pNode))

RECURSIVE DeleteRec(_, _, _)

\* The branch "key < pNode->Ref.Key" from its recursive call on.
DeleteRecLeft(a, key) ==
    Rewire("DeleteRec", a.n, "L",
           Logged(Event("descend", "DeleteRec", a.h, a.n, a.h[a.n].pLeft),
                  DeleteRec(a.h, a.h[a.n].pLeft, key)))

\* DeleteRecSuccessor without the copy of the successor's key.
DeleteRecSuccessorNoCopy(b, m) ==
    Rewire("DeleteRec", b.n, "R",
           Logged(Event("successor", "DeleteRec", b.h, b.n, m),
                  DeleteMin(b.h, b.h[b.n].pRight)))

\* DeleteRecSuccessor copying the right child's key instead of FindMin's.
DeleteRecSuccessorRightKey(b, m) ==
    Rewire("DeleteRec", b.n, "R",
           Logged(Event("successor", "DeleteRec", b.h, b.n, m),
                  DeleteMin([b.h EXCEPT ![b.n].Key = b.h[b.h[b.n].pRight].Key],
                            b.h[b.n].pRight)))

\* "Deletion of an internal node": m is FindMin(pNode->pRight).
DeleteRecSuccessor(b, m) ==
    Rewire("DeleteRec", b.n, "R",
           Logged(Event("successor", "DeleteRec", b.h, b.n, m),
                  DeleteMin([b.h EXCEPT ![b.n].Key = b.h[m].Key], b.h[b.n].pRight)))

\* The else branch after MoveRedRight.
DeleteRecDown(b, key) ==
    IF key = b.h[b.n].Key
    THEN DeleteRecSuccessor(b, FindMin(b.h, b.h[b.n].pRight))
    ELSE Rewire("DeleteRec", b.n, "R",
                Logged(Event("descend", "DeleteRec", b.h, b.n, b.h[b.n].pRight),
                       DeleteRec(b.h, b.h[b.n].pRight, key)))

\* DeleteRecRight unlinking a node without a right child whatever its key.
DeleteRecRightAnyKey(a, key) ==
    IF a.h[a.n].pRight = nullptr
    THEN Unlink("DeleteRec", a.h, a.n)
    ELSE DeleteRecDown(
             IF ~IsRed(a.h, a.h[a.n].pRight) /\ ~IsRed(a.h, a.h[a.h[a.n].pRight].pLeft)
             THEN MoveRedRight(a.h, a.n) ELSE a,
             key)

\* The else branch after "if (IsRed(pNode->pLeft)) pNode = RotateRight(pNode)".
DeleteRecRight(a, key) ==
    IF (key = a.h[a.n].Key) /\ (a.h[a.n].pRight = nullptr)
    THEN Unlink("DeleteRec", a.h, a.n)
    ELSE IF a.h[a.n].pRight # nullptr
    THEN DeleteRecDown(
             IF ~IsRed(a.h, a.h[a.n].pRight) /\ ~IsRed(a.h, a.h[a.h[a.n].pRight].pLeft)
             THEN MoveRedRight(a.h, a.n) ELSE a,
             key)
    ELSE Return("DeleteRec", a.h, a.n, <<>>, <<>>)

\* DeleteRec without the right rotation of a red left child.
DeleteRecNoLean(h, pNode, key) ==
    IF key < h[pNode].Key
    THEN IF h[pNode].pLeft # nullptr
         THEN DeleteRecLeft(
                  IF ~IsRed(h, h[pNode].pLeft) /\ ~IsRed(h, h[h[pNode].pLeft].pLeft)
                  THEN MoveRedLeft(h, pNode) ELSE Cur(h, pNode),
                  key)
         ELSE Return("DeleteRec", h, pNode, <<>>, <<>>)
    ELSE DeleteRecRight(Cur(h, pNode), key)

\* DeleteRec going left without MoveRedLeft.
DeleteRecNoMoveLeft(h, pNode, key) ==
    IF key < h[pNode].Key
    THEN IF h[pNode].pLeft # nullptr
         THEN DeleteRecLeft(Cur(h, pNode), key)
         ELSE Return("DeleteRec", h, pNode, <<>>, <<>>)
    ELSE DeleteRecRight(
             IF IsRed(h, h[pNode].pLeft) THEN RotateRight(h, pNode) ELSE Cur(h, pNode),
             key)

DeleteRec(h, pNode, key) ==
    IF key < h[pNode].Key
    THEN IF h[pNode].pLeft # nullptr
         THEN DeleteRecLeft(
                  IF ~IsRed(h, h[pNode].pLeft) /\ ~IsRed(h, h[h[pNode].pLeft].pLeft)
                  THEN MoveRedLeft(h, pNode) ELSE Cur(h, pNode),
                  key)
         ELSE Return("DeleteRec", h, pNode, <<>>, <<>>)
    ELSE DeleteRecRight(
             IF IsRed(h, h[pNode].pLeft) THEN RotateRight(h, pNode) ELSE Cur(h, pNode),
             key)

-----------------------------------------------------------------------------
\* Lookup and traversal

\* LookUp: the loop leaves only through a null link, and the only return
\* statement returns nullptr.
RECURSIVE LookUpFrom(_, _, _)
LookUpFrom(h, pNode, key) ==
    IF pNode # nullptr
    THEN IF key < h[pNode].Key
         THEN LookUpFrom(h, h[pNode].pLeft, key)
         ELSE LookUpFrom(h, h[pNode].pRight, key)
    ELSE nullptr

\* TraverseRec threads prev by reference: t is [out, prev, diag].
RECURSIVE TraverseRec(_, _, _)
TraverseRec(h, pNode, t) ==
    LET a == IF h[pNode].pLeft # nullptr THEN TraverseRec(h, h[pNode].pLeft, t) ELSE t
        b == [out  |-> Append(a.out, h[pNode].Key),
              prev |-> h[pNode].Key,
              diag |-> a.diag \/ ~(a.prev < h[pNode].Key)]
    IN  IF h[pNode].pRight # nullptr THEN TraverseRec(h, h[pNode].pRight, b) ELSE b

TraverseFrom(h, root) ==
    IF root # nullptr
    THEN TraverseRec(h, root, [out |-> <<>>, prev |-> 0, diag |-> FALSE])
    ELSE [out |-> <<>>, prev |-> 0, diag |-> FALSE]

-----------------------------------------------------------------------------
\* The public operations

\* The nodes reachable from pNode, and the heap cut down to them.
RECURSIVE Reach(_, _)
Reach(h, pNode) ==
    IF pNode = nullptr THEN {}
    ELSE {pNode} \cup Reach(h, h[pNode].pLeft) \cup Reach(h, h[pNode].pRight)

Tree(h, root) == [n \in Reach(h, root) |-> h[n]]

\* BlackRoot leaving the root's colour alone.
BlackRootSkip(x) == x

\* "m_pRoot->IsRed = false" after InsertRec.
BlackRoot(x) == Cur([x.h EXCEPT ![x.n].IsRed = FALSE], x.n)

\* "if (nullptr != m_pRoot) m_pRoot->IsRed = false" after DeleteRec.
DeleteBlackRoot(r) == IF r.n # nullptr THEN [r EXCEPT !.h[r.n].IsRed = FALSE] ELSE r

Init ==
    /\ heap = <<>>
    /\ allocated = 0
    /\ m_pRoot = nullptr
    /\ released = <<>>
    /\ present = {}
    /\ asc = TRUE
    /\ example = TRUE
    /\ op = [name |-> "new", key |-> 0]
    /\ lookUpRet = nullptr
    /\ insertRet = FALSE
    /\ fresh = FALSE
    /\ undone = FALSE
    /\ parent = nullptr
    /\ out = <<>>
    /\ diag = FALSE
    /\ frames = <<>>
    /\ nullDeref = FALSE

\* The calls the driver makes are bounded: a call that allocates is made while
\* fewer than MaxNodes nodes exist, or as the next call of the ascending run,
\* or as the next call of the run that inserts Example.  The run of Example is
\* not mixed with other keys.
CanInsert(k) ==
    \/ k \in present
    \/ k \in InsertKeys /\ allocated < MaxNodes /\ ~(example /\ allocated > 0)
    \/ asc /\ k = allocated + 1 /\ k <= AscLen
    \/ example /\ allocated < Len(Example) /\ k = Example[allocated + 1]

\* In the run of Example the driver deletes only once all of Example is
\* inserted, and only its first key.
CanDelete(k) ==
    (example /\ allocated > 0) => (allocated = Len(Example) /\ k = Example[1])

\* Insert up to "m_pRoot->IsRed = false".
InsertRoot(h, root, key) == BlackRoot(InsertRec(h, root, key))

\* Delete: the tree it leaves, the addresses it released, its frames.
DeleteRoot(h, root, key) ==
    IF root # nullptr
    THEN DeleteBlackRoot(DeleteRec(h, root, key))
    ELSE [h |-> h, n |-> root, rel |-> <<>>, log |-> <<>>]

\* Reading through a null link is undefined: the process may die there (it
\* takes no further step) or carry on with whatever the read gave, in which
\* case the parent Insert prints is any node or none.
Insert(k) ==
    /\ CanInsert(k)
    /\ LET x == InsertRoot(heap, m_pRoot, k)
       IN  /\ heap' = x.h
           /\ m_pRoot' = x.n
           /\ allocated' = IF (allocated + 1) \in DOMAIN x.h
                           THEN allocated + 1 ELSE allocated
           /\ parent' \in IF InsertReport(x.h, x.n, k).fault
                          THEN DOMAIN x.h \cup {nullptr}
                          ELSE {InsertReport(x.h, x.n, k).parent}
           /\ nullDeref' = (nullDeref \/ InsertReport(x.h, x.n, k).fault)
    /\ insertRet' = TRUE
    /\ fresh' = (k \notin present)
    /\ undone' = FALSE
    /\ lookUpRet' = nullptr
    /\ present' = present \cup {k}
    /\ asc' = (asc /\ k = allocated + 1)
    /\ example' = IF allocated = 0 THEN k = Example[1] ELSE example
    /\ op' = [name |-> "Insert", key |-> k]
    /\ out' = <<>>
    /\ diag' = FALSE
    /\ frames' = <<>>
    /\ UNCHANGED released

\* Insert(k) when NewNode's allocation fails: the exception leaves Insert
\* before "m_pRoot = ..." is assigned, nothing is printed and nothing returned.
InsertNoMem(k) ==
    /\ InsertRecNoMem(heap, m_pRoot, k).thrown
    /\ heap' = Tree(InsertRecNoMem(heap, m_pRoot, k).h, m_pRoot)
    /\ op' = [name |-> "InsertNoMem", key |-> k]
    /\ lookUpRet' = nullptr
    /\ insertRet' = FALSE
    /\ fresh' = FALSE
    /\ undone' = FALSE
    /\ parent' = nullptr
    /\ out' = <<>>
    /\ diag' = FALSE
    /\ frames' = <<>>
    /\ UNCHANGED <<m_pRoot, allocated, released, present, asc, example, nullDeref>>

Delete(k) ==
    /\ CanDelete(k)
    /\ LET r == DeleteRoot(heap, m_pRoot, k)
       IN  /\ heap' = Tree(r.h, r.n)
           /\ m_pRoot' = r.n
           /\ released' = released \o r.rel
           /\ frames' = r.log
    /\ present' = present \ {k}
    /\ asc' = FALSE
    /\ op' = [name |-> "Delete", key |-> k]
    /\ lookUpRet' = nullptr
    /\ insertRet' = FALSE
    /\ fresh' = FALSE
    /\ undone' = (fresh /\ op = [name |-> "Insert", key |-> k])
    /\ parent' = nullptr
    /\ out' = <<>>
    /\ diag' = FALSE
    /\ UNCHANGED <<allocated, example, nullDeref>>

LookUp(k) ==
    /\ lookUpRet' = LookUpFrom(heap, m_pRoot, k)
    /\ insertRet' = FALSE
    /\ fresh' = FALSE
    /\ op' = [name |-> "LookUp", key |-> k]
    /\ undone' = FALSE
    /\ parent' = nullptr
    /\ out' = <<>>
    /\ diag' = FALSE
    /\ frames' = <<>>
    /\ UNCHANGED <<heap, m_pRoot, allocated, released, present, asc, example,
                   nullDeref>>

Traverse ==
    /\ LET t == TraverseFrom(heap, m_pRoot)
       IN  /\ out' = t.out
           /\ diag' = t.diag
    /\ op' = [name |-> "Traverse", key |-> 0]
    /\ undone' = FALSE
    /\ lookUpRet' = nullptr
    /\ insertRet' = FALSE
    /\ fresh' = FALSE
    /\ parent' = nullptr
    /\ frames' = <<>>
    /\ UNCHANGED <<heap, m_pRoot, allocated, released, present, asc, example,
                   nullDeref>>

FreeAll ==
    /\ released' = released \o Free(heap, m_pRoot)
    /\ m_pRoot' = nullptr
    /\ heap' = Tree(heap, nullptr)
    /\ present' = {}
    /\ asc' = FALSE
    /\ op' = [name |-> "FreeAll", key |-> 0]
    /\ undone' = FALSE
    /\ lookUpRet' = nullptr
    /\ insertRet' = FALSE
    /\ fresh' = FALSE
    /\ parent' = nullptr
    /\ out' = <<>>
    /\ diag' = FALSE
    /\ frames' = <<>>
    /\ UNCHANGED <<allocated, example, nullDeref>>

\* The keys the driver passes to Delete and LookUp: those it may insert and
\* those stored in some node.
DriverKeys == InsertKeys \cup {heap[n].Key : n \in DOMAIN heap}

Next ==
    \/ \E k \in Keys : Insert(k)
    \/ \E k \in InsertKeys : InsertNoMem(k)
    \/ \E k \in DriverKeys : Delete(k)
    \/ \E k \in DriverKeys : LookUp(k)
    \/ Traverse
    \/ FreeAll

Spec == Init /\ [][Next]_vars

-----------------------------------------------------------------------------
\* Shape of the tree hanging from m_pRoot

RECURSIVE KeysOf(_, _)
KeysOf(h, pNode) ==
    IF pNode = nullptr THEN {}
    ELSE {h[pNode].Key} \cup KeysOf(h, h[pNode].pLeft) \cup KeysOf(h, h[pNode].pRight)

\* Number of nodes on the longest path from pNode down to a leaf.
RECURSIVE Height(_, _)
Height(h, pNode) ==
    IF pNode = nullptr THEN 0
    ELSE 1 + Max(Height(h, h[pNode].pLeft), Height(h, h[pNode].pRight))

\* The numbers of black nodes met on the paths from pNode to a null link.
RECURSIVE BlackCounts(_, _)
BlackCounts(h, pNode) ==
    IF pNode = nullptr THEN {0}
    ELSE {c + (IF h[pNode].IsRed THEN 0 ELSE 1) :
            c \in BlackCounts(h, h[pNode].pLeft) \cup BlackCounts(h, h[pNode].pRight)}

Nodes == Reach(heap, m_pRoot)

BSTOrder ==
    /\ \A n \in Nodes :
          /\ \A k \in KeysOf(heap, heap[n].pLeft) : k < heap[n].Key
          /\ \A k \in KeysOf(heap, heap[n].pRight) : k > heap[n].Key
    /\ \A m, n \in Nodes : heap[m].Key = heap[n].Key => m = n

BlackBalanced == Cardinality(BlackCounts(heap, m_pRoot)) = 1

NoRedRight == \A n \in Nodes : ~IsRed(heap, heap[n].pRight)

NoRedRedLeft == \A n \in Nodes : ~(heap[n].IsRed /\ IsRed(heap, heap[n].pLeft))

RootBlack == m_pRoot # nullptr => ~heap[m_pRoot].IsRed

Unlinked == {i \in DOMAIN frames : frames[i].e = "unlink"}

\* The node of the tree that holds key, and the smallest key of the tree
\* larger than key.
Holder(key) == CHOOSE n \in DOMAIN heap : heap[n].Key = key

Successor(key) ==
    CHOOSE s \in KeysOf(heap, m_pRoot) :
        /\ s > key
        /\ \A j \in KeysOf(heap, m_pRoot) : j > key => s <= j

\* Delete(key) is called on a tree in which key is held by a node with a
\* right child.
HasRightChild(key) ==
    \E n \in DOMAIN heap : heap[n].Key = key /\ heap[n].pRight # nullptr

\* The frames of the last Delete that made a recursive call.
Descents == {i \in DOMAIN frames : frames[i].e \in {"descend", "successor"}}

\* Number of nodes the search for key visits from pNode on.
RECURSIVE Visited(_, _, _)
Visited(h, pNode, key) ==
    IF pNode = nullptr THEN 0
    ELSE IF key = h[pNode].Key THEN 1
    ELSE IF key < h[pNode].Key THEN 1 + Visited(h, h[pNode].pLeft, key)
    ELSE 1 + Visited(h, h[pNode].pRight, key)

\* How many times address a was handed to a delete expression.
Releases(a) == Cardinality({i \in DOMAIN released : released[i] = a})

\* The nodes allocated, no longer reachable from the root and never released.
Leaked == {a \in 1..allocated : a \notin Nodes /\ Releases(a) = 0}

-----------------------------------------------------------------------------
\* Claims

\* C1: the keys Traverse prints are strictly ascending and are exactly the
\* keys inserted and not deleted afterwards.
C1_TraverseSortedExact ==
    op.name = "Traverse" =>
        /\ \A i \in 1..(Len(out) - 1) : out[i] < out[i + 1]
        /\ {out[i] : i \in DOMAIN out} = present

\* A Traverse of a tree of at least four keys from which keys were deleted.
C1_Witness ==
    /\ op.name = "Traverse"
    /\ Len(out) >= 4
    /\ allocated > Len(out)

\* C2: LookUp(k) returns a found result exactly when k was inserted and not
\* deleted afterwards.
C2_LookUpAgrees ==
    op.name = "LookUp" => ((lookUpRet # nullptr) <=> (op.key \in present))

\* C3: after every call, every node's left subtree holds smaller keys, its
\* right subtree larger keys, and no key is held by two nodes.
C3_BSTOrder == BSTOrder

\* A Delete of a present key from a tree that keeps at least four nodes.
C3_Witness ==
    /\ op.name = "Delete"
    /\ Unlinked # {}
    /\ Cardinality(Nodes) >= 4

\* C4: after every call, every path from the root to a null link holds the
\* same number of black nodes.
C4_BlackBalance == BlackBalanced

\* A Delete of an absent key from a tree of black height 3.
C4_Witness ==
    /\ op.name = "Delete"
    /\ frames # <<>>
    /\ Unlinked = {}
    /\ BlackCounts(heap, m_pRoot) = {3}

\* C5: after every call, no node has a red right child.
C5_NoRedRight == NoRedRight

\* An Insert that left a red node in a tree of at least five nodes.
C5_Witness ==
    /\ op.name = "Insert"
    /\ Cardinality(Nodes) >= 5
    /\ \E n \in Nodes : heap[n].IsRed

\* C6: after every call, no red node has a red left child.
C6_NoRedRedLeft == NoRedRedLeft

\* A Delete of a present key that left a red node in the tree.
C6_Witness ==
    /\ op.name = "Delete"
    /\ Unlinked # {}
    /\ \E n \in Nodes : heap[n].IsRed

\* C7: after every call the root, if there is one, is black; and once no key
\* is left the root link is null.
C7_BlackRoot ==
    /\ RootBlack
    /\ (present = {} => m_pRoot = nullptr)

\* A Delete that removed the last key.
C7_Witness ==
    /\ op.name = "Delete"
    /\ Unlinked # {}
    /\ present = {}
    /\ m_pRoot = nullptr

\* C8 as stated: a Delete of a key that is not in the tree leaves every link
\* and every colour as it was.
C8_DeleteAbsentUnchanged ==
    [][(op'.name = "Delete" /\ op'.key \notin present)
          => (heap' = heap /\ m_pRoot' = m_pRoot)]_vars

\* C8 as amended: a Delete of a key that is not in the tree unlinks, allocates
\* and releases no node and leaves every node its key; the tree it leaves is in
\* BST order, black-balanced, left-leaning and black-rooted.
C8_DeleteAbsentKeepsKeys ==
    [][(op'.name = "Delete" /\ op'.key \notin present)
          => /\ DOMAIN heap' = DOMAIN heap
             /\ \A n \in DOMAIN heap : heap'[n].Key = heap[n].Key
             /\ allocated' = allocated
             /\ released' = released
             /\ (m_pRoot' = nullptr <=> m_pRoot = nullptr)
             /\ BSTOrder' /\ BlackBalanced' /\ NoRedRight' /\ NoRedRedLeft'
             /\ RootBlack']_vars

\* A Delete of an absent key that went down at least three frames of a tree of
\* at least four nodes.
C8_Witness ==
    /\ op.name = "Delete"
    /\ op.key \notin KeysOf(heap, m_pRoot)
    /\ Unlinked = {}
    /\ Len(frames) >= 3
    /\ Cardinality(Nodes) >= 4

\* C9: Insert of a key that is already in the tree leaves every link, colour
\* and key as it was and allocates no node.
C9_UpsertIdempotent ==
    [][(op'.name = "Insert" /\ op'.key \in present)
          => (heap' = heap /\ m_pRoot' = m_pRoot /\ allocated' = allocated)]_vars

\* An Insert of a key already held by a non-root node allocated before the
\* newest one, in a tree of at least five nodes from which a key was deleted.
C9_Witness ==
    /\ op.name = "Insert"
    /\ parent # nullptr
    /\ \E n \in Nodes : heap[n].Key = op.key /\ n < allocated
    /\ Cardinality(Nodes) >= 5
    /\ allocated > Cardinality(Nodes)

\* C10: a tree of n keys is at most 2*log2(n+1) nodes high, that is
\* 2^height <= (n+1)^2; and the tree built by Insert(1), ..., Insert(7) is at
\* most 5 nodes high.
C10_HeightBound ==
    /\ 2 ^ Height(heap, m_pRoot) <= (Cardinality(Nodes) + 1) * (Cardinality(Nodes) + 1)
    /\ (asc /\ allocated = 7) => Height(heap, m_pRoot) <= 5

\* The tree right after Insert(1), ..., Insert(7).
C10_Witness ==
    /\ asc
    /\ allocated = 7
    /\ op = [name |-> "Insert", key |-> 7]
    /\ KeysOf(heap, m_pRoot) = 1..7

\* C11: every node that is no longer reachable from the root (unlinked by
\* Delete, or dropped by FreeAll) has been released exactly once, no node of
\* the tree has been released, and FreeAll leaves the root link null.
C11_TeardownReleases ==
    /\ \A a \in 1..allocated : Releases(a) = (IF a \in Nodes THEN 0 ELSE 1)
    /\ (op.name = "FreeAll" => m_pRoot = nullptr)

\* C12: Insert returns true for a key that was absent before the call and
\* false for a key that was already in the tree.
C12_InsertReturnTellsNew ==
    op.name = "Insert" => (insertRet <=> fresh)

\* C13: Insert(k) of a key that is not in the tree followed at once by
\* Delete(k) leaves a tree that holds exactly the keys held before the Insert
\* and is in BST order, black-rooted, left-leaning, without two reds in a row
\* and black-balanced.
C13_InsertDeleteRoundTrip ==
    [][(op.name = "Insert" /\ fresh /\ op'.name = "Delete" /\ op'.key = op.key)
          => /\ KeysOf(heap', m_pRoot') = KeysOf(heap, m_pRoot) \ {op.key}
             /\ KeysOf(heap', m_pRoot') = present \ {op.key}
             /\ BSTOrder' /\ RootBlack' /\ NoRedRight' /\ NoRedRedLeft'
             /\ BlackBalanced']_vars

\* Such a round trip in which Delete found k in a node with a right child,
\* where the rotations of Insert had lifted it.
C13_Witness ==
    /\ undone
    /\ \E i \in DOMAIN frames : frames[i].e = "successor"
    /\ Cardinality(Nodes) >= 2

\* C14: an Insert whose allocation fails leaves every node's key, colour and
\* links and the root link as they were, and the tree still satisfies every
\* invariant.
C14_InsertAllOrNothing ==
    [][op'.name = "InsertNoMem"
          => /\ heap' = heap
             /\ m_pRoot' = m_pRoot
             /\ BSTOrder' /\ RootBlack' /\ NoRedRight' /\ NoRedRedLeft'
             /\ BlackBalanced']_vars

\* A failed Insert whose exception passed through at least three frames of a
\* tree of at least four nodes.
C14_Witness ==
    /\ op.name = "InsertNoMem"
    /\ Cardinality(Nodes) >= 4
    /\ Visited(heap, m_pRoot, op.key) >= 3

\* C15: in every frame of DeleteRec and DeleteMin that makes a recursive call,
\* at the call the frame's node is red or the child the call is made on is red.
C15_DescentRed ==
    \A i \in Descents : frames[i].red \/ frames[i].dred

\* What does hold of the descent: the same in every frame below the first
\* (the first frame is DeleteRec on the root, which Delete leaves black).
DescentRedBelowRoot ==
    \A i \in Descents : i > 1 => (frames[i].red \/ frames[i].dred)

\* C16: every node Delete unlinks is red when it is unlinked, unless it is the
\* only node of the tree (unlinked by the first frame, leaving the tree
\* empty); and the tree left by the unlinking is black-balanced.
C16_UnlinkedRed ==
    /\ \A i \in Unlinked : frames[i].red \/ (i = 1 /\ m_pRoot = nullptr)
    /\ (Unlinked # {} => BlackBalanced)

\* A Delete whose DeleteMin unlinked a red node and left at least four nodes.
C16_Witness ==
    /\ op.name = "Delete"
    /\ \E i \in Unlinked : frames[i].red /\ frames[i].f = "DeleteMin"
    /\ Cardinality(Nodes) >= 4

\* C17: a node is a leaf when DeleteRec or DeleteMin unlinks it (both its
\* child links are null), and a Delete of a key that is in the tree unlinks
\* exactly one node and takes no other node out of the tree.
C17_UnlinkOnlyLeaves ==
    [][op'.name = "Delete"
          => /\ \A i \in Unlinked' : frames'[i].l = nullptr /\ frames'[i].r = nullptr
             /\ (op'.key \in present
                   => /\ Cardinality(Unlinked') = 1
                      /\ DOMAIN heap' \subseteq DOMAIN heap
                      /\ Cardinality(DOMAIN heap \ DOMAIN heap') = 1)]_vars

\* A Delete whose DeleteRec unlinked a node in its third frame or deeper, in a
\* tree that keeps at least four nodes.
C17_Witness ==
    /\ op.name = "Delete"
    /\ \E i \in Unlinked : frames[i].f = "DeleteRec" /\ i >= 3
    /\ Cardinality(Nodes) >= 4

\* C18: on every subtree on which a frame of DeleteRec or DeleteMin calls
\* FixUp, FixUp returns the subtree (root, links, colours) that the three
\* rebalancing steps of InsertRec return.
C18_FixUpIsInsertFix ==
    \A i \in DOMAIN frames : frames[i].same

\* A Delete in which FixUp was called on a node with two red children, where
\* FixUp rotates left and InsertRec's first step does not.
C18_Witness ==
    /\ op.name = "Delete"
    /\ \E i \in DOMAIN frames :
          frames[i].e = "fixup" /\ frames[i].rred /\ frames[i].lred

\* C19: when Delete(k) is called and the node holding k has a right child,
\* that node stays in the tree and holds the in-order successor of k after the
\* call, and the one node unlinked is the node that held the successor's key
\* before the call.
C19_DeleteBySuccessor ==
    [][(op'.name = "Delete" /\ HasRightChild(op'.key))
          => /\ Holder(op'.key) \in DOMAIN heap'
             /\ heap'[Holder(op'.key)].Key = Successor(op'.key)
             /\ DOMAIN heap \ DOMAIN heap' = {Holder(Successor(op'.key))}
             /\ {frames'[i].n : i \in Unlinked'} = {Holder(Successor(op'.key))}
             /\ KeysOf(heap', m_pRoot') = KeysOf(heap, m_pRoot) \ {op'.key}]_vars

\* Delete(50) after Insert of 50, 25, 75, 10, 30, 60, 80, 5, 15, 27, 35: the
\* node allocated first, which held 50, holds 60 and ten nodes are left.
C19_Witness ==
    /\ example
    /\ allocated = Len(Example)
    /\ op = [name |-> "Delete", key |-> Example[1]]
    /\ Unlinked # {}
    /\ Cardinality(Nodes) = Len(Example) - 1
    /\ 1 \in Nodes
    /\ heap[1].Key = Example[6]

\* C20: no Insert reads through a null link, and the parent Insert prints is
\* the node one of whose children holds the inserted key (none when the root
\* holds it).
C20_FindParentSafe ==
    /\ ~nullDeref
    /\ op.name = "Insert" =>
          IF heap[m_pRoot].Key = op.key
          THEN parent = nullptr
          ELSE /\ parent \in Nodes
               /\ \E c \in Nodes :
                     /\ heap[c].Key = op.key
                     /\ c \in {heap[parent].pLeft, heap[parent].pRight}

\* An Insert after which FindParent went below the root and stopped at a node
\* whose left child holds the key and whose right link is null.
C20_Witness ==
    /\ op.name = "Insert"
    /\ parent \in Nodes \ {m_pRoot}
    /\ heap[parent].pRight = nullptr
    /\ heap[heap[parent].pLeft].Key = op.key

\* C21: Traverse never prints its out-of-order diagnostic: at every node it
\* visits, the running value prev (0 at the start) is smaller than the node's
\* key.
C21_NoDiagnostic ==
    op.name = "Traverse" => ~diag

=============================================================================
